---- MODULE Spec2Model ----
(***************************************************************************)
(* Model of the dense entity-component store of src/src/lib.rs (struct     *)
(* Data): the reference-count vector rc, the map components from component *)
(* type to its vector, and the operations entity, insert, query,           *)
(* query_mut, retain and release.                                          *)
(***************************************************************************)
EXTENDS Integers, Sequences, FiniteSets, TLC

\* ------------------------------------------------------------------ bounds
\* entity() is called at most MaxEntities times on the store.
MaxEntities == 2
\* retain and release are called at most MaxRcCalls times in total.
MaxRcCalls == 3
\* Entity holds a u32; the model scales it to an identifier of IdWidth bits,
\* so that the identifier space can be exhausted.
IdWidth == 1

\* ------------------------------------------------------- program constants
\* rc is a Vec<u8>: a count takes the values 0 .. U8Max.
U8Max == 255
\* The value Default::default() yields for a component type.
Default == 0
\* The count entity() pushes for a new entity.
InitialCount == 1

\* The component types of the doc example, and the values a component takes
\* (Default and a value different from it).
Types == {"Position", "Velocity"}
Values == {Default, 1}

\* The size of the identifier space (2^32 in the code): identifiers are
\* 0 .. IdSpace - 1.
IdSpace == 2 ^ IdWidth

\* Entity handles a caller can hold: the indices this store hands out, and
\* indices beyond them (handles made by another store, whose entity() ran
\* more often than this store's).
EntityIds == 0 .. MaxEntities

VARIABLES
    rc,               \* Data.rc: the sequence of u8 counts, one per entity
    components,       \* Data.components: function from registered type to its sequence
    overflow_checks,  \* build configuration: are arithmetic overflow checks compiled in
    returned,         \* history: the entities entity() has returned, in call order
    retains,          \* history: per entity, number of retain calls made on it
    releases,         \* history: per entity, number of release calls made on it
    in_range,         \* history: per entity, no retain/release on it has overflowed
                      \*          and its count has never dropped below 1
    inserted,         \* history: the types T for which insert<T> has been called
    first_count,      \* history: per inserted type, the length of rc when the first
                      \*          insert<T> was called
    calls_since,      \* history: per inserted type, the number of entity() calls made
                      \*          since the first insert<T>
    view_written      \* history: an element was written through a query_mut view

vars == <<rc, components, overflow_checks, returned, retains, releases,
          in_range, inserted, first_count, calls_since, view_written>>

\* ------------------------------------------------------------ pure helpers
\* Entity::i: the u32 as usize (lossless on the platforms the crate supports).
i(e) == e

\* Option<&[T]>
None == [some |-> FALSE]
Some(s) == [some |-> TRUE, val |-> s]

\* Mutant of push_item: the pushed element is a copy of the last one.
push_item_copies_last(s) == Append(s, s[Len(s)])

\* Mutant of push_item: two elements are pushed.
push_item_twice(s) == Append(Append(s, Default), Default)

\* <Vec<T> as Storage>::push_item
push_item(s) == Append(s, Default)

\* Mutant of entity_id: the length is read after the push of line 96.
entity_id_after_push(r) == Len(r) + 1

\* Data::entity, line 95: the identifier is the length of rc before the push.
entity_id(r) == Len(r)

\* Data::entity, line 96
entity_rc(r) == Append(r, InitialCount)

\* Data::entity, lines 97-99: every registered storage grows by one default.
entity_components(c) == [T \in DOMAIN c |-> push_item(c[T])]

\* Mutant of u32_try_from: the cast `id as u32`, which keeps the low bits.
u32_cast(x) == [ok |-> TRUE, val |-> x % IdSpace]

\* u32::try_from(id), line 100: the value itself when it fits the identifier,
\* an error otherwise (val is then not used).
u32_try_from(x) == [ok |-> x < IdSpace, val |-> x]

\* Data::entity as a function of the store: the store after the call, the
\* entity returned, and whether the call panicked instead of returning (the
\* unwrap of line 100, which runs after the pushes of lines 96-99).
entity(r, c) ==
    LET id == u32_try_from(entity_id(r))
    IN  [rc |-> entity_rc(r), components |-> entity_components(c),
         ret |-> id.val, panic |-> ~id.ok]

\* Mutant of insert_vacant: the new map holds the new type alone.
insert_vacant_forgets(c, T, component) == [U \in {T} |-> <<component>>]

\* Data::insert, Entry::Vacant branch (line 109): a fresh one-element vector.
insert_vacant(c, T, component) ==
    [U \in DOMAIN c \cup {T} |-> IF U = T THEN <<component>> ELSE c[U]]

\* Mutant of insert_occupied: the component is written at the entity's index
\* of every storage that has the index.
insert_occupied_every_type(c, T, e, component) ==
    [U \in DOMAIN c |-> IF i(e) < Len(c[U])
                        THEN [c[U] EXCEPT ![i(e) + 1] = component]
                        ELSE c[U]]

\* Data::insert, occupied branch (line 112): the indexed store, index in range.
insert_occupied(c, T, e, component) ==
    [c EXCEPT ![T][i(e) + 1] = component]

\* Mutant of insert: the flag reports whether the entity's slot held a
\* component (a value other than the default) before the call.
insert_reports_slot(c, e, T, component) ==
    IF T \notin DOMAIN c
    THEN [components |-> insert_vacant(c, T, component), ret |-> FALSE, panic |-> FALSE]
    ELSE IF i(e) >= Len(c[T])
    THEN [components |-> c, ret |-> FALSE, panic |-> TRUE]
    ELSE [components |-> insert_occupied(c, T, e, component),
          ret |-> c[T][i(e) + 1] # Default, panic |-> FALSE]

\* Data::insert as a function of the map: the map after the call, the flag
\* returned, and whether the call panicked instead of returning (the slice
\* index of line 112 out of range; the map is then as before the call).
insert(c, e, T, component) ==
    IF T \notin DOMAIN c
    THEN [components |-> insert_vacant(c, T, component), ret |-> FALSE, panic |-> FALSE]
    ELSE IF i(e) >= Len(c[T])
    THEN [components |-> c, ret |-> FALSE, panic |-> TRUE]
    ELSE [components |-> insert_occupied(c, T, e, component),
          ret |-> TRUE, panic |-> FALSE]

\* A write through the view of Data::query_mut, as in line 38 of the doc
\* example: query_mut::<T>().unwrap()[index] = component. The map after it,
\* and whether it panicked (unwrap of None, or index out of range).
write_mut(c, T, index, component) ==
    IF T \notin DOMAIN c \/ index >= Len(c[T])
    THEN [components |-> c, panic |-> TRUE]
    ELSE [components |-> [c EXCEPT ![T][index + 1] = component], panic |-> FALSE]

\* Data::query
query(c, T) == IF T \in DOMAIN c THEN Some(c[T]) ELSE None

\* Mutant of query_mut: the view starts at the second element.
query_mut_tail(c, T) == IF T \in DOMAIN c THEN Some(Tail(c[T])) ELSE None

\* Data::query_mut
query_mut(c, T) == IF T \in DOMAIN c THEN Some(c[T]) ELSE None

\* Mutant of add_one: the count is raised by two.
add_two(x) == [overflow |-> x >= U8Max - 1, val |-> (x + 2) % (U8Max + 1)]

\* u8 `+= 1`: overflows at U8Max; without overflow checks the result wraps.
add_one(x) == [overflow |-> x = U8Max, val |-> (x + 1) % (U8Max + 1)]

\* u8 `-= 1`: overflows at 0; without overflow checks the result wraps.
sub_one(x) == [overflow |-> x = 0, val |-> (x - 1) % (U8Max + 1)]

\* Mutant of retain: the count raised is the one at index 0.
retain_first(r, e, checks) ==
    IF i(e) >= Len(r)
    THEN [rc |-> r, panic |-> TRUE, overflow |-> FALSE]
    ELSE LET n == add_one(r[1])
         IN  IF n.overflow /\ checks
             THEN [rc |-> r, panic |-> TRUE, overflow |-> TRUE]
             ELSE [rc |-> [r EXCEPT ![1] = n.val],
                   panic |-> FALSE, overflow |-> n.overflow]

\* Data::retain as a function of rc: rc after the call, whether the call
\* panicked (index out of range, or overflow with overflow checks compiled
\* in; rc is then as before the call) and whether the u8 overflowed.
retain(r, e, checks) ==
    IF i(e) >= Len(r)
    THEN [rc |-> r, panic |-> TRUE, overflow |-> FALSE]
    ELSE LET n == add_one(r[i(e) + 1])
         IN  IF n.overflow /\ checks
             THEN [rc |-> r, panic |-> TRUE, overflow |-> TRUE]
             ELSE [rc |-> [r EXCEPT ![i(e) + 1] = n.val],
                   panic |-> FALSE, overflow |-> n.overflow]

\* Data::release as a function of rc, like retain.
release(r, e, checks) ==
    IF i(e) >= Len(r)
    THEN [rc |-> r, panic |-> TRUE, overflow |-> FALSE]
    ELSE LET n == sub_one(r[i(e) + 1])
         IN  IF n.overflow /\ checks
             THEN [rc |-> r, panic |-> TRUE, overflow |-> TRUE]
             ELSE [rc |-> [r EXCEPT ![i(e) + 1] = n.val],
                   panic |-> FALSE, overflow |-> n.overflow]

\* The number of retain and release calls made so far on entities of the store.
RECURSIVE SumSeq(_)
SumSeq(s) == IF s = <<>> THEN 0 ELSE Head(s) + SumSeq(Tail(s))
RcCalls == SumSeq(retains) + SumSeq(releases)

\* The handles this store has returned, and the other handles a caller can hold.
Own == {returned[k] : k \in 1 .. Len(returned)}
Foreign == EntityIds \ Own

\* ------------------------------------------------------------------- Init
\* Data::new: both collections empty.
Init ==
    /\ rc = <<>>
    /\ components = <<>>
    /\ overflow_checks \in BOOLEAN
    /\ returned = <<>>
    /\ retains = <<>>
    /\ releases = <<>>
    /\ in_range = <<>>
    /\ inserted = {}
    /\ first_count = <<>>
    /\ calls_since = <<>>
    /\ view_written = FALSE

\* ---------------------------------------------------------------- actions
\* Data::entity: one call. A call that panics returns no entity, after it
\* has grown rc and the component storages.
EntityCall ==
    /\ LET r == entity(rc, components)
       IN  /\ rc' = r.rc
           /\ components' = r.components
           /\ returned' = IF r.panic THEN returned ELSE Append(returned, r.ret)
    /\ retains' = Append(retains, 0)
    /\ releases' = Append(releases, 0)
    /\ in_range' = Append(in_range, TRUE)
    /\ calls_since' = [T \in DOMAIN calls_since |-> calls_since[T] + 1]
    /\ UNCHANGED <<overflow_checks, inserted, first_count, view_written>>

\* Data::entity, called at most MaxEntities times
Entity ==
    /\ Len(rc) < MaxEntities
    /\ EntityCall

\* Data::entity, called until the identifier space is exhausted and once more
EntityToOverflow ==
    /\ Len(rc) <= IdSpace
    /\ EntityCall

\* Data::insert::<T>(entity, component)
Insert(e, T, component) ==
    /\ components' = insert(components, e, T, component).components
    /\ inserted' = inserted \cup {T}
    /\ first_count' = IF T \in inserted THEN first_count
                      ELSE [U \in inserted \cup {T} |->
                              IF U = T THEN Len(rc) ELSE first_count[U]]
    /\ calls_since' = IF T \in inserted THEN calls_since
                      ELSE [U \in inserted \cup {T} |->
                              IF U = T THEN 0 ELSE calls_since[U]]
    /\ UNCHANGED <<rc, overflow_checks, returned, retains, releases, in_range,
                   view_written>>

\* A write through the view query_mut::<T>() returned
WriteMut(T, index, component) ==
    /\ LET w == write_mut(components, T, index, component)
       IN  /\ components' = w.components
           /\ view_written' = (view_written \/ ~w.panic)
    /\ UNCHANGED <<rc, overflow_checks, returned, retains, releases, in_range,
                   inserted, first_count, calls_since>>

\* Data::query::<T>(): reads the store
Query(T) ==
    /\ query(components, T).some \in BOOLEAN
    /\ UNCHANGED vars

\* Data::query_mut::<T>(), the view not written through
QueryMut(T) ==
    /\ query_mut(components, T).some \in BOOLEAN
    /\ UNCHANGED vars

\* Data::retain(entity)
Retain(e) ==
    /\ RcCalls < MaxRcCalls
    /\ LET r == retain(rc, e, overflow_checks)
       IN  /\ rc' = r.rc
           /\ IF e \in Own
              THEN /\ retains' = [retains EXCEPT ![i(e) + 1] = @ + 1]
                   /\ in_range' = [in_range EXCEPT ![i(e) + 1] = @ /\ ~r.overflow]
              ELSE UNCHANGED <<retains, in_range>>
    /\ UNCHANGED <<components, overflow_checks, returned, releases, inserted,
                   first_count, calls_since, view_written>>

\* Data::release(entity)
Release(e) ==
    /\ RcCalls < MaxRcCalls
    /\ LET r == release(rc, e, overflow_checks)
       IN  /\ rc' = r.rc
           /\ IF e \in Own
              THEN /\ releases' = [releases EXCEPT ![i(e) + 1] = @ + 1]
                   /\ in_range' = [in_range EXCEPT ![i(e) + 1] =
                                     @ /\ ~r.overflow /\ r.rc[i(e) + 1] >= 1]
              ELSE UNCHANGED <<releases, in_range>>
    /\ UNCHANGED <<components, overflow_checks, returned, retains, inserted,
                   first_count, calls_since, view_written>>

\* Calls whose entity argument, if any, was returned by this store.
NextOwn ==
    \/ Entity
    \/ \E e \in Own, T \in Types, v \in Values : Insert(e, T, v)
    \/ \E T \in Types : Query(T)
    \/ \E T \in Types : QueryMut(T)
    \/ \E e \in Own : Retain(e)
    \/ \E e \in Own : Release(e)

\* Calls with a handle this store did not return.
NextForeign ==
    \/ \E e \in Foreign, T \in Types, v \in Values : Insert(e, T, v)
    \/ \E e \in Foreign : Retain(e)
    \/ \E e \in Foreign : Release(e)

Next == NextOwn \/ NextForeign

\* Every call sequence, handles of other stores included.
Spec == Init /\ [][Next]_vars

\* The call sequences that use only handles this store returned.
SpecOwn == Init /\ [][NextOwn]_vars

\* entity() called until the identifier space is exhausted and once more,
\* with inserts on the store's entities and queries in between.
NextToOverflow ==
    \/ EntityToOverflow
    \/ \E e \in Own, T \in Types, v \in Values : Insert(e, T, v)
    \/ \E T \in Types : Query(T)

SpecToOverflow == Init /\ [][NextToOverflow]_vars

\* The call sequences in which every component type is first registered by
\* an insert on the entity of index 0, an entity of this store.
InsertFirstOnZero(e, T, component) ==
    /\ T \notin DOMAIN components => i(e) = 0
    /\ Insert(e, T, component)

NextFirstOnZero ==
    \/ Entity
    \/ \E e \in Own, T \in Types, v \in Values : InsertFirstOnZero(e, T, v)
    \/ \E T \in Types : Query(T)
    \/ \E e \in Own : Retain(e)
    \/ \E e \in Own : Release(e)

SpecFirstOnZero == Init /\ [][NextFirstOnZero]_vars

\* The call sequences with the store's own handles, and writes through the
\* view of query_mut at any index.
NextViews ==
    \/ NextOwn
    \/ \E T \in Types, index \in EntityIds, v \in Values : WriteMut(T, index, v)

SpecViews == Init /\ [][NextViews]_vars

\* ----------------------------------------------------------------- claims
\* e2 was returned by an entity() call made before the one that returned e1.
CreatedBefore(e2, e1) ==
    \E j, k \in 1 .. Len(returned) : j < k /\ returned[j] = e2 /\ returned[k] = e1

\* C1 (cross-type alignment), as claimed: in every state reached by calls that
\* use only entities of this store, the sequence of every registered component
\* type is as long as rc, so every entity's index is a position of it.
C1_CrossTypeAlignment ==
    \A T \in DOMAIN components :
        /\ Len(components[T]) = Len(rc)
        /\ \A e \in Own : i(e) < Len(query(components, T).val)

\* C2 (write-read round trip), as claimed: in every state, for every entity e
\* of this store, type T and value v, when insert<T>(e, v) returns, query<T>()
\* is present and holds v at index e.i().
C2_WriteReadRoundTrip ==
    \A e \in Own, T \in Types, v \in Values :
        LET r == insert(components, e, T, v)
            q == query(r.components, T)
        IN  ~r.panic => /\ q.some
                        /\ i(e) < Len(q.val)
                        /\ q.val[i(e) + 1] = v

\* C3 (default backfill), as claimed: when insert<T>(e1, v) registers T, every
\* entity e2 created before e1 has a slot in T's sequence, holding the default.
C3_DefaultBackfill ==
    \A e1 \in Own, T \in Types \ DOMAIN components, v \in Values :
        LET s == insert(components, e1, T, v).components[T]
        IN  \A e2 \in Own :
                CreatedBefore(e2, e1) => /\ i(e2) < Len(s)
                                         /\ s[i(e2) + 1] = Default

\* C4 (index stability): the k-th entity() call, counted from 0, returned the
\* entity of index k, whatever calls were made in between; so the entities
\* returned are pairwise distinct and increasing.
C4_IndexStability ==
    \A k \in 1 .. Len(returned) : i(returned[k]) = k - 1

\* C4 witness: two entity() calls with an insert between them (the type it
\* registered has grown once since) and retain/release calls made.
C4_Witness ==
    /\ Len(returned) = 2
    /\ \E T \in DOMAIN components : Len(components[T]) = 2
    /\ RcCalls > 0

\* C5 (no out-of-range fault for own entities), as claimed: in every state,
\* insert<T>(e, v) on an entity e of this store does not panic.
C5_NoFaultForOwnEntities ==
    \A e \in Own, T \in Types, v \in Values : ~insert(components, e, T, v).panic

\* C6 (reference counting): an entity whose count never dropped below 1 and
\* never overflowed has count 1 + retains - releases (1 right after entity()),
\* whatever calls were made on other entities or on the components.
C6_ReferenceCounting ==
    \A e \in Own :
        in_range[i(e) + 1] =>
            rc[i(e) + 1] = InitialCount + retains[i(e) + 1] - releases[i(e) + 1]

\* C6 witness: an entity retained and released within range, while another
\* entity was retained and a component type was inserted.
C6_Witness ==
    /\ Len(rc) = 2
    /\ in_range[1] /\ retains[1] = 1 /\ releases[1] = 1
    /\ retains[2] = 1
    /\ inserted # {}

\* C7 (absence and monotonic registration): in every state, query<U>() and
\* query_mut<U>() are absent exactly for the types U no insert<U> was called
\* for; the types inserted so far only grow, so a type stays present.
C7_AbsenceAndRegistration ==
    \A U \in Types :
        /\ query(components, U).some <=> U \in inserted
        /\ query_mut(components, U).some <=> U \in inserted

\* C7 witness: one type inserted and still present after a later entity()
\* call and a retain or release, the other type never inserted.
C7_Witness ==
    /\ inserted = {"Position"}
    /\ Len(query(components, "Position").val) = 2
    /\ ~query(components, "Velocity").some
    /\ RcCalls > 0

\* C8 (insert's flag): in every state, for every entity, own or not, an insert
\* that returns returns false exactly when T was not registered before the
\* call, true exactly when it was, and T is registered after the call.
C8_InsertFlag ==
    \A e \in EntityIds, T \in Types, v \in Values :
        LET r == insert(components, e, T, v)
        IN  ~r.panic => /\ r.ret = (T \in DOMAIN components)
                        /\ T \in DOMAIN r.components

\* C8 witness: one type registered, with a slot holding a component and a
\* slot never written, and one type not registered.
C8_Witness ==
    /\ DOMAIN components = {"Position"}
    /\ inserted = {"Position"}
    /\ Len(components["Position"]) = 2
    /\ components["Position"][1] # Default
    /\ components["Position"][2] = Default

\* C9 (foreign entity rejected), as claimed: in every state, insert<T>(e, v)
\* with an entity this store did not return panics, and leaves the map as it
\* was.
C9_ForeignEntityRejected ==
    \A e \in Foreign, T \in Types, v \in Values :
        LET r == insert(components, e, T, v)
        IN  r.panic /\ r.components = components

\* C10 (no silent wraparound), as claimed: no step takes the count of an
\* entity from 0 to 255 or from 255 to 0 (a retain at 255 or a release at 0
\* fails instead, and leaves the count as it was).
C10_NoSilentWraparound ==
    [][\A e \in Own :
          /\ rc[i(e) + 1] = 0 => rc'[i(e) + 1] # U8Max
          /\ rc[i(e) + 1] = U8Max => rc'[i(e) + 1] # 0]_vars

\* C11 (identifier overflow is a defined failure): in every state, an entity()
\* call made when IdSpace entities exist panics instead of returning, and an
\* entity() call that returns returns the next identifier, which fits the
\* identifier space and is no identifier returned before.
C11_IdentifierOverflow ==
    LET r == entity(rc, components)
    IN  /\ Len(returned) = IdSpace => r.panic
        /\ ~r.panic => /\ r.ret = Len(returned)
                       /\ r.ret < IdSpace
                       /\ r.ret \notin Own

\* C11 witness: the identifier space is exhausted, a further entity() call
\* has been made and has returned no entity.
C11_Witness ==
    /\ Len(returned) = IdSpace
    /\ Own = 0 .. IdSpace - 1
    /\ Len(rc) = IdSpace + 1
    /\ inserted # {}

\* C12 (no side effect on failure), as claimed: in every state, a call of
\* entity, insert, retain or release that fails leaves rc and components as
\* they were before the call.
C12_NoSideEffectOnFailure ==
    /\ LET r == entity(rc, components)
       IN  r.panic => r.rc = rc /\ r.components = components
    /\ \A e \in EntityIds, T \in Types, v \in Values :
           LET r == insert(components, e, T, v)
           IN  r.panic => r.components = components
    /\ \A e \in EntityIds :
           /\ LET r == retain(rc, e, overflow_checks) IN r.panic => r.rc = rc
           /\ LET r == release(rc, e, overflow_checks) IN r.panic => r.rc = rc

\* C13 (registration via entity 0 suffices), as claimed: when every component
\* type is first registered by an insert on the entity of index 0, every
\* registered type's sequence is as long as rc, and no insert on an entity of
\* this store panics. The vacant branch of insert (line 109) stores a
\* one-element vector without backfill, so a first insert through entity 0
\* made while two entities exist leaves the sequence shorter than rc.
C13_EntityZeroSuffices ==
    \A T \in DOMAIN components :
        /\ Len(components[T]) = Len(rc)
        /\ \A e \in Own, v \in Values : ~insert(components, e, T, v).panic

\* C14 (sequence length law): in every state, the sequence of a registered
\* type has one element more than the number of entity() calls made since the
\* type's first insert; a first insert<T>(e, v) leaves T's sequence as the
\* single element v, whatever the entity and the number of entities.
C14_SequenceLengthLaw ==
    /\ \A T \in DOMAIN components : Len(components[T]) = 1 + calls_since[T]
    /\ \A e \in EntityIds, T \in Types \ DOMAIN components, v \in Values :
           insert(components, e, T, v).components[T] = <<v>>

\* C14 witness: a type registered while two entities existed and not grown
\* since, beside a type grown by an entity() call since its registration.
C14_Witness ==
    /\ Len(rc) = 2
    /\ \E T \in DOMAIN components : first_count[T] = 2 /\ components[T] = <<1>>
    /\ \E U \in DOMAIN components : calls_since[U] >= 1

\* C15 (effect and frame of entity()): every step in which entity() returns
\* appends one count of 1 to rc and one default element to the sequence of
\* every registered type, and changes no earlier count, no earlier element
\* and not the set of registered types.
C15_EntityEffect ==
    [][Len(returned') > Len(returned) =>
          /\ Len(rc') = Len(rc) + 1
          /\ rc'[Len(rc')] = 1
          /\ \A k \in 1 .. Len(rc) : rc'[k] = rc[k]
          /\ DOMAIN components' = DOMAIN components
          /\ \A T \in DOMAIN components :
                 /\ Len(components'[T]) = Len(components[T]) + 1
                 /\ components'[T][Len(components'[T])] = Default
                 /\ \A k \in 1 .. Len(components[T]) :
                        components'[T][k] = components[T][k]]_vars

\* C15 witness: two registered types of different lengths, both grown by the
\* same entity() call after an element other than the default was stored.
C15_Witness ==
    /\ Len(returned) = 2
    /\ DOMAIN components = Types
    /\ components["Position"] = <<1, Default>>
    /\ components["Velocity"] = <<1, Default, Default>>

\* A step of a call that is no entity, retain or release call on an entity of
\* the store (the history of those calls is as before): an insert, a query, or
\* a write through a view.
ComponentCallStep ==
    /\ Len(retains') = Len(retains)
    /\ retains' = retains
    /\ releases' = releases

\* The sequences s and t are equal except, possibly, at position k.
SameExceptAt(s, t, k) ==
    /\ Len(s) = Len(t)
    /\ \A j \in 1 .. Len(s) : j # k => s[j] = t[j]

\* C16 (frame of insert): in every state, insert<T>(e, v) leaves the sequence
\* of every other registered type as it was and, when T is registered, leaves
\* the length of T's sequence and every element of it other than the one at
\* index e.i() as they were; and no insert step changes rc or the entities.
C16_InsertFrame ==
    /\ [](\A e \in EntityIds, T \in Types, v \in Values :
              LET r == insert(components, e, T, v).components
              IN  /\ \A U \in DOMAIN components \ {T} :
                         U \in DOMAIN r /\ r[U] = components[U]
                  /\ T \in DOMAIN components =>
                         SameExceptAt(r[T], components[T], i(e) + 1))
    /\ [][ComponentCallStep => rc' = rc /\ returned' = returned]_vars

\* C16 witness: both types registered while one entity existed, a second
\* entity created, and the slot of index 1 written in both.
C16_Witness ==
    /\ Len(rc) = 2
    /\ first_count = [T \in Types |-> 1]
    /\ components["Position"] = <<1, 1>>
    /\ components["Velocity"] = <<Default, 1>>

\* C17 (the count is pure bookkeeping): every step of a retain or release
\* call on entity e leaves the components, the entities and every other
\* entity's count as they were; and an entity() call made while some count is
\* 0 still returns the next fresh index and removes or clears nothing.
C17_CountIsBookkeeping ==
    [][/\ (Len(retains') = Len(retains) /\ ~ComponentCallStep) =>
              /\ components' = components
              /\ returned' = returned
              /\ Len(rc') = Len(rc)
              /\ \A k \in 1 .. Len(rc) :
                     (retains'[k] = retains[k] /\ releases'[k] = releases[k])
                         => rc'[k] = rc[k]
       /\ ((\E k \in 1 .. Len(rc) : rc[k] = 0) /\ Len(returned') > Len(returned)) =>
              /\ returned'[Len(returned')] = Len(rc)
              /\ \A k \in 1 .. Len(rc) : rc'[k] = rc[k]
              /\ \A T \in DOMAIN components :
                     \A k \in 1 .. Len(components[T]) :
                         components'[T][k] = components[T][k]]_vars

\* C17 witness: the first entity released to 0 with its component still
\* stored, the second entity retained.
C17_Witness ==
    /\ rc = <<0, 2>>
    /\ returned = <<0, 1>>
    /\ "Position" \in DOMAIN components
    /\ components["Position"] = <<1, Default>>

\* C18 (query and query_mut expose the stored sequence): in every state the
\* two return the same view, absent or of the same elements in index order,
\* and a write of v at index through the view of query_mut<T>() makes
\* query<T>() hold v there and leaves every other element of T and every
\* other type as they were; no query or view-write step changes rc or the
\* entities.
C18_SameSequence ==
    /\ [](\A T \in Types :
              /\ query(components, T).some = query_mut(components, T).some
              /\ query(components, T).some =>
                     query(components, T).val = query_mut(components, T).val
              /\ \A index \in EntityIds, v \in Values :
                     LET w == write_mut(components, T, index, v)
                     IN  ~w.panic =>
                             /\ DOMAIN w.components = DOMAIN components
                             /\ \A U \in DOMAIN components \ {T} :
                                    w.components[U] = components[U]
                             /\ query(w.components, T).val[index + 1] = v
                             /\ SameExceptAt(query(w.components, T).val,
                                             query_mut(components, T).val, index + 1))
    /\ [][(ComponentCallStep /\ inserted' = inserted) =>
              rc' = rc /\ returned' = returned]_vars

\* C18 witness: an element was written through the view while two types
\* were registered and two entities existed.
C18_Witness ==
    /\ view_written
    /\ Len(rc) = 2
    /\ DOMAIN components = Types
    /\ components["Position"] = <<Default, 1>>

====
